---------------------------- MODULE Spec2Model ----------------------------
(***************************************************************************)
(* Access-control coordination layer of the embedded controller:           *)
(*   F3_4_start_stop_engine.py  engine start/stop interlock                *)
(*   F9_Intruder_detect.py      IR intrusion monitor and modal alarm       *)
(*   F2_door.py                 servo door lock                            *)
(*   Integrate.py, F1_menu.py   keypad producer and foreground loops       *)
(*   g.py                       shared state and its defaults              *)
(***************************************************************************)
EXTENDS Integers, Sequences, FiniteSets, TLC

VARIABLES
    \* ---- configuration, fixed by the init() calls
    require_rfid_each_start,  \* F3_4 _require_rfid_each_start
    eng_allowed_uids,         \* F3_4 _allowed_uids
    g_rfid_allowed_uids,      \* g.rfid_allowed_uids
    alarm_allowed_uids,       \* F9 _allowed_uids
    alarm_rfid,               \* F9 _rfid: "reader" or "None"
    alarm_trigger_edge,       \* g.alarm_trigger_edge
    \* ---- engine
    engine_running,           \* F3_4 _engine_running
    motor_speed,              \* last duty commanded to hal_dc_motor
    epc,                      \* position inside an engine call
    slide_switch,             \* level of the physical slide switch (environment)
    auth_result,              \* outcome of _authenticate_rfid in the current start_engine call
    sw_at_auth,               \* slide switch level when the credential step finished
    eng_ret,                  \* value returned by the last engine call
    motor_cmds,               \* set_motor_speed calls made by the last engine step
    \* ---- alarm
    alarm_active,             \* g.alarm_active
    ir_last_state,            \* g.ir_last_state (baseline)
    ir_cur,                   \* first sample _read_ir() gave the last monitor_ir_and_trigger call
    ir_confirm,               \* local confirm of monitor_ir_and_trigger
    base_locked,              \* door was locked when the baseline sample was taken
    buzzer_on,                \* last command given to the buzzer
    return_to_main_menu,      \* g.return_to_main_menu
    apc,                      \* position inside monitor_ir_and_trigger
    tap_uid,                  \* identifier returned by the last read_id
    \* ---- door
    locked,                   \* g.locked
    servo_ok,                 \* the last servo command did not raise
    g_lock_angle,             \* g.lock_angle
    g_unlock_angle,           \* g.unlock_angle
    servo_angle,              \* last angle given to hal_servo.set_servo_position
    \* ---- access control service
    auth_ret,                 \* what the last authorized_tap_blocking call returned
    tpc,                      \* position inside authorized_tap_blocking
    set_arg,                  \* identifiers passed to the last set_allowed call
    \* ---- user registry
    users,                    \* the rows of the registry (user_manage.csv, or table users)
    reg_ret,                  \* value returned by the last registry call
    reg_backend,              \* "csv" (F8_user_manage.py) or "mysql" (test1.py)
    \* ---- the three credential checks side by side
    allow_cfg,                \* the allowed_uids argument the three init() calls are given
    inited,                   \* the modules whose init() has been called with it
    verdict,                  \* what the three checks said of the last identifier presented
    \* ---- foreground loops
    pc,                       \* position of the foreground thread
    loop,                     \* "main" (Integrate.main) or "idle" (F1.idle_menu_loop)
    current_page,             \* g.current_page
    \* ---- keypad queue
    queue,                    \* g.shared_keypad_queue
    qtag,                     \* per queued key: was the alarm active when it was enqueued
    presses,                  \* number of key_pressed calls so far
    kpc,                      \* position inside key_pressed
    kkey,                     \* the key key_pressed is enqueuing
    consumed,                 \* number of consumer gets (queue specification)
    key_phase,                \* where in the keypad cycle the key stream starts (queue specification)
    \* ---- last action taken
    op

cfgVars   == <<require_rfid_each_start, eng_allowed_uids, g_rfid_allowed_uids,
               alarm_allowed_uids, alarm_rfid, alarm_trigger_edge>>
engVars   == <<engine_running, motor_speed, epc, auth_result, sw_at_auth,
               eng_ret, motor_cmds>>
alarmVars == <<alarm_active, ir_last_state, ir_cur, ir_confirm, base_locked,
               buzzer_on, return_to_main_menu, apc>>
doorVars  == <<locked, servo_ok, g_lock_angle, g_unlock_angle, servo_angle>>
authVars  == <<auth_ret, tpc, set_arg>>
regVars   == <<users, reg_ret, reg_backend>>
chkVars   == <<allow_cfg, inited, verdict>>
menuVars  == <<pc, loop, current_page>>
queueVars == <<queue, qtag, presses, kpc, kkey, consumed, key_phase>>
vars      == <<cfgVars, authVars, regVars, chkVars, engVars, slide_switch, alarmVars, tap_uid,
               doorVars,
               menuVars, queueVars, op>>

-----------------------------------------------------------------------------
(* Bounds of the model *)

\* key_pressed calls explored in the system specification
MaxPresses == 3
\* key_pressed calls explored in the queue specification, beyond the capacity
MaxExtraPresses == 3
\* consumer gets explored in the queue specification
MaxConsumed == 2
\* key_pressed calls explored from the entry of idle_menu_loop
MaxIdlePresses == 2

-----------------------------------------------------------------------------
(* Credentials.  read_id returns an int; an allow-list may hold ints and    *)
(* strings.  A credential is its Python type together with its digits: an   *)
(* int, a decimal text (the digits after pad leading zeros), or a text that *)
(* is no number.                                                            *)

IntUid(d) == [form |-> "int", d |-> d, pad |-> 0]
StrUid(d) == [form |-> "str", d |-> d, pad |-> 0]
\* the decimal text d written with n leading zeros
PaddedStrUid(d, n) == [form |-> "str", d |-> d, pad |-> n]
\* a text int() raises ValueError on
WordUid(w) == [form |-> "word", d |-> w, pad |-> 0]
\* str(uid): the decimal text of an int, a text itself
Str(u) == IF u.form = "int" THEN StrUid(u.d) ELSE u
\* int(uid) returns for an int and for a decimal text, whose leading zeros it drops
CanInt(u) == u.form \in {"int", "str"}
IntOf(u) == IntUid(u.d)

NoUid     == [form |-> "none", d |-> "", pad |-> 0]
ReadFault == [form |-> "fault", d |-> "", pad |-> 0]

\* the value of an authorized_tap_blocking call: none while it has not returned,
\* then the pair (ok, uid)
NotReturned      == [done |-> FALSE, ok |-> FALSE, uid |-> NoUid]
Returned(ok, u)  == [done |-> TRUE, ok |-> ok, uid |-> u]

\* g.py line 26 / F7_auth_service.py line 73: the three project tags
ProjectUids == {IntUid("966206689390"), IntUid("470912245720"), IntUid("988692462534")}

\* identifiers a card may present: one project tag and one foreign tag
TapUids == {IntUid("966206689390"), IntUid("111")}
\* what rfid.read_id() can produce: an identifier, or an exception
ReaderOutcomes == TapUids \cup {ReadFault}

\* an optional list of identifiers: None, or the identifiers it holds
NoneList    == [isNone |-> TRUE, uids |-> {}]
SomeList(S) == [isNone |-> FALSE, uids |-> S]

\* g.rfid_allowed_uids once g.py is loaded: line 26 assigns the three project
\* tags, line 60 assigns None over them
GModuleAllowed == NoneList

\* set(allowed_uids) if allowed_uids else None
SetOrNone(arg) == IF (~arg.isNone) /\ arg.uids # {} THEN SomeList(arg.uids) ELSE NoneList

\* allowed_uids arguments explored for the init() calls
AllowArgs == {NoneList, SomeList({}), SomeList({IntUid("966206689390")}),
              SomeList({StrUid("966206689390")})}


-----------------------------------------------------------------------------
\* the parts of the state a specification does not use, at their g.py values
AlarmAtRest ==
    /\ alarm_active = FALSE
    /\ ir_last_state = "None"
    /\ ir_cur = "unset"
    /\ ir_confirm = "unset"
    /\ base_locked = FALSE
    /\ buzzer_on = FALSE
    /\ return_to_main_menu = FALSE
    /\ apc = "none"
    /\ tap_uid = NoUid

\* an angle as a float: a number of degrees, or nan
Num(n) == [kind |-> "num", v |-> n]
NaN    == [kind |-> "nan", v |-> 0]
\* an argument float() raises on (None, a word, an int too large for a float)
BadAngle == [kind |-> "bad", v |-> 0]

\* g.py lines 41-43 and the door.init() F1_menu.py makes when it is imported
DoorAtRest ==
    /\ locked = TRUE
    /\ servo_ok = TRUE
    /\ g_lock_angle = Num(0)
    /\ g_unlock_angle = Num(90)
    /\ servo_angle = Num(0)

\* no verdict of the three credential checks taken
NoVerdict == [done |-> FALSE, service |-> FALSE, alarm |-> FALSE, engine |-> FALSE]

\* no side-by-side run of the credential checks under way
ChkAtRest ==
    /\ allow_cfg = NoneList
    /\ inited = {}
    /\ verdict = NoVerdict

\* an empty registry in the CSV file, no call made
RegAtRest ==
    /\ users = <<>>
    /\ reg_ret = FALSE
    /\ reg_backend = "csv"

\* no authorized_tap_blocking call has been made
AuthAtRest ==
    /\ auth_ret = NotReturned
    /\ tpc = "none"
    /\ set_arg = {}

MenuAtRest ==
    /\ pc = "none"
    /\ loop = "main"
    /\ current_page = 0

QueueAtRest ==
    /\ queue = <<>>
    /\ qtag = <<>>
    /\ presses = 0
    /\ kpc = "idle"
    /\ kkey = ""
    /\ consumed = 0
    /\ key_phase = 0

-----------------------------------------------------------------------------
(* F3_4_start_stop_engine.py *)

\* init(require_rfid_each_start, allowed_uids): the module state it leaves
EngineInit(req, arg) ==
    /\ require_rfid_each_start = req
    /\ eng_allowed_uids = SetOrNone(arg)
    /\ engine_running = FALSE
    /\ motor_speed = 0
    /\ epc = "none"
    /\ auth_result = "none"
    /\ sw_at_auth = 0
    /\ eng_ret = "none"
    /\ motor_cmds = 0

\* line 69: _allowed_uids is None or (uid in _allowed_uids) or (str(uid) in _allowed_uids)
AuthAccepts(allowed, uid) ==
    allowed.isNone \/ uid \in allowed.uids \/ Str(uid) \in allowed.uids

\* lines 112-118 with the set_motor_speed(100) of line 113 left out
StartMotorFlagOnly ==
    /\ motor_cmds' = 0
    /\ engine_running' = TRUE
    /\ eng_ret' = "True"
    /\ epc' = "none"
    /\ UNCHANGED motor_speed

\* lines 112-118: command full output, set the running flag, return True
StartMotor ==
    /\ motor_speed' = 100
    /\ motor_cmds' = 1
    /\ engine_running' = TRUE
    /\ eng_ret' = "True"
    /\ epc' = "none"

\* start_engine() with the "if _engine_running: return True" of lines 102-103 left out
StartEngineBodyNoRunningCheck ==
    IF ~require_rfid_each_start
    THEN /\ auth_result' = "skipped"
         /\ sw_at_auth' = slide_switch
         /\ epc' = "wait_sw"
         /\ eng_ret' = "none"
         /\ motor_cmds' = 0
         /\ UNCHANGED <<engine_running, motor_speed>>
    ELSE /\ auth_result' = "none"
         /\ epc' = "auth"
         /\ eng_ret' = "none"
         /\ motor_cmds' = 0
         /\ UNCHANGED <<engine_running, motor_speed, sw_at_auth>>

\* start_engine() up to its first blocking point
StartEngineBody ==
    IF engine_running
    THEN /\ eng_ret' = "True"
         /\ motor_cmds' = 0
         /\ UNCHANGED <<engine_running, motor_speed, epc, auth_result, sw_at_auth>>
    ELSE IF ~require_rfid_each_start
    THEN \* _authenticate_rfid returns True at once; next is _wait_for_switch_on
         /\ auth_result' = "skipped"
         /\ sw_at_auth' = slide_switch
         /\ epc' = "wait_sw"
         /\ eng_ret' = "none"
         /\ motor_cmds' = 0
         /\ UNCHANGED <<engine_running, motor_speed>>
    ELSE \* prompt shown, blocked in rfid.read_id()
         /\ auth_result' = "none"
         /\ epc' = "auth"
         /\ eng_ret' = "none"
         /\ motor_cmds' = 0
         /\ UNCHANGED <<engine_running, motor_speed, sw_at_auth>>

\* stop_engine() with the set_motor_speed(0) of line 126 left out
StopEngineBodyKeepsMotor ==
    IF ~engine_running
    THEN /\ eng_ret' = "True"
         /\ motor_cmds' = 0
         /\ UNCHANGED <<engine_running, motor_speed, epc, auth_result, sw_at_auth>>
    ELSE /\ motor_cmds' = 0
         /\ engine_running' = FALSE
         /\ eng_ret' = "True"
         /\ UNCHANGED <<motor_speed, epc, auth_result, sw_at_auth>>

\* stop_engine()
StopEngineBody ==
    IF ~engine_running
    THEN /\ eng_ret' = "True"
         /\ motor_cmds' = 0
         /\ UNCHANGED <<engine_running, motor_speed, epc, auth_result, sw_at_auth>>
    ELSE /\ motor_speed' = 0
         /\ motor_cmds' = 1
         /\ engine_running' = FALSE
         /\ eng_ret' = "True"
         /\ UNCHANGED <<epc, auth_result, sw_at_auth>>

StartEngine ==
    /\ epc = "none"
    /\ StartEngineBody
    /\ op' = "start_engine"
    /\ UNCHANGED tap_uid

StopEngine ==
    /\ epc = "none"
    /\ StopEngineBody
    /\ op' = "stop_engine"
    /\ UNCHANGED tap_uid

\* toggle_engine(): stop_engine() if _engine_running else start_engine()
ToggleEngine ==
    /\ epc = "none"
    /\ IF engine_running THEN StopEngineBody ELSE StartEngineBody
    /\ op' = "toggle_engine"
    /\ UNCHANGED tap_uid

\* _authenticate_rfid(): read_id returns or raises, then the verdict of line 69;
\* on denial start_engine returns False, an exception leaves start_engine
AuthenticateRfidFallsThrough ==
    /\ epc = "auth"
    /\ \E r \in ReaderOutcomes :
         IF r = ReadFault
         THEN /\ tap_uid' = ReadFault
              /\ auth_result' = "fault"
              /\ epc' = "raised"
              /\ eng_ret' = "raised"
              /\ UNCHANGED sw_at_auth
         ELSE /\ tap_uid' = r
              /\ auth_result' = IF AuthAccepts(eng_allowed_uids, r) THEN "granted" ELSE "denied"
              /\ sw_at_auth' = slide_switch
              /\ epc' = "wait_sw"
              /\ eng_ret' = "none"
    /\ motor_cmds' = 0
    /\ op' = "authenticate_rfid"
    /\ UNCHANGED <<engine_running, motor_speed>>

AuthenticateRfid ==
    /\ epc = "auth"
    /\ \E r \in ReaderOutcomes :
         IF r = ReadFault
         THEN /\ tap_uid' = ReadFault
              /\ auth_result' = "fault"
              /\ epc' = "raised"
              /\ eng_ret' = "raised"
              /\ UNCHANGED sw_at_auth
         ELSE /\ tap_uid' = r
              /\ IF AuthAccepts(eng_allowed_uids, r)
                 THEN /\ auth_result' = "granted"
                      /\ sw_at_auth' = slide_switch
                      /\ epc' = "wait_sw"
                      /\ eng_ret' = "none"
                 ELSE /\ auth_result' = "denied"
                      /\ sw_at_auth' = slide_switch
                      /\ epc' = "none"
                      /\ eng_ret' = "False"
    /\ motor_cmds' = 0
    /\ op' = "authenticate_rfid"
    /\ UNCHANGED <<engine_running, motor_speed>>

\* _wait_for_switch_on() with the switch never read: the motor starts at once
WaitForSwitchOnNoRead ==
    /\ epc = "wait_sw"
    /\ StartMotor
    /\ op' = "wait_for_switch_on"
    /\ UNCHANGED <<auth_result, sw_at_auth, tap_uid>>

\* _wait_for_switch_on() giving up after one read of OFF: start_engine returns False
WaitForSwitchOnGivesUp ==
    /\ epc = "wait_sw"
    /\ IF slide_switch = 1
       THEN StartMotor
       ELSE /\ motor_cmds' = 0
            /\ epc' = "none"
            /\ eng_ret' = "False"
            /\ UNCHANGED <<engine_running, motor_speed>>
    /\ op' = "wait_for_switch_on"
    /\ UNCHANGED <<auth_result, sw_at_auth, tap_uid>>

\* _wait_for_switch_on(), one read of the slide switch: ON lets start_engine go on
\* to start the motor, anything else sleeps 0.1 s and reads again
WaitForSwitchOn ==
    /\ epc = "wait_sw"
    /\ IF slide_switch = 1
       THEN StartMotor
       ELSE /\ motor_cmds' = 0
            /\ UNCHANGED <<engine_running, motor_speed, epc, eng_ret>>
    /\ op' = "wait_for_switch_on"
    /\ UNCHANGED <<auth_result, sw_at_auth, tap_uid>>

\* enforce_switch_safety() with the forced stop reported as True
EnforceSwitchSafetySilent ==
    /\ epc = "none"
    /\ IF engine_running /\ slide_switch = 0
       THEN StopEngineBody
       ELSE /\ motor_cmds' = 0
            /\ UNCHANGED <<engine_running, motor_speed, epc, auth_result, sw_at_auth>>
    /\ eng_ret' = "True"
    /\ op' = "enforce_switch_safety"
    /\ UNCHANGED tap_uid

\* enforce_switch_safety()
EnforceSwitchSafety ==
    /\ epc = "none"
    /\ IF engine_running /\ slide_switch = 0
       THEN /\ motor_speed' = 0
            /\ motor_cmds' = 1
            /\ engine_running' = FALSE
            /\ eng_ret' = "False"
            /\ UNCHANGED <<epc, auth_result, sw_at_auth>>
       ELSE /\ eng_ret' = "True"
            /\ motor_cmds' = 0
            /\ UNCHANGED <<engine_running, motor_speed, epc, auth_result, sw_at_auth>>
    /\ op' = "enforce_switch_safety"
    /\ UNCHANGED tap_uid

\* the caller of an engine call sees the exception it raised
EngineRaised ==
    /\ epc = "raised"
    /\ epc' = "none"
    /\ motor_cmds' = 0
    /\ op' = "engine_raised"
    /\ UNCHANGED <<engine_running, motor_speed, auth_result, sw_at_auth, eng_ret, tap_uid>>

\* the driver moves the slide switch
SwitchFlip ==
    /\ slide_switch' = 1 - slide_switch
    /\ UNCHANGED op


-----------------------------------------------------------------------------
(* F9_Intruder_detect.py *)

\* init(allowed_uids), lines 72-74: the allow-list the alarm keeps
AlarmInitAllowed(arg) ==
    SetOrNone(IF arg.isNone /\ ~g_rfid_allowed_uids.isNone THEN g_rfid_allowed_uids ELSE arg)

\* what _read_ir() can return: bool(level), or None when the sensor read raised
IrReads == {"True", "False", "None"}

\* _edge_should_trigger(prev, cur)
EdgeShouldTrigger(prev, cur) ==
    IF alarm_trigger_edge = "rising" THEN prev = "False" /\ cur = "True"
    ELSE IF alarm_trigger_edge = "falling" THEN prev = "True" /\ cur = "False"
    ELSE prev # cur

\* _rfid_ok_blocking, lines 168-174: the verdict on an identifier that was read
RfidOk(allowed, uid) ==
    IF allowed.isNone THEN TRUE
    ELSE uid \in allowed.uids \/ Str(uid) \in allowed.uids

\* monitor_ir_and_trigger() with the "if not g.locked" branch of lines 187-189 left out
MonitorIrAndTriggerArmedUnlocked ==
    /\ apc = "none"
    /\ \E r \in IrReads :
         IF alarm_active
         THEN UNCHANGED <<ir_last_state, ir_cur, ir_confirm, base_locked, apc>>
         ELSE /\ ir_cur' = r
              /\ ir_confirm' = "unset"
              /\ IF r = "None"
                 THEN UNCHANGED <<ir_last_state, base_locked, apc>>
                 ELSE IF ir_last_state = "None"
                 THEN /\ ir_last_state' = r
                      /\ base_locked' = locked
                      /\ UNCHANGED apc
                 ELSE IF EdgeShouldTrigger(ir_last_state, r)
                 THEN /\ apc' = "confirm"
                      /\ UNCHANGED <<ir_last_state, base_locked>>
                 ELSE /\ ir_last_state' = r
                      /\ base_locked' = locked
                      /\ UNCHANGED apc
    /\ op' = "monitor_ir_and_trigger"
    /\ UNCHANGED <<alarm_active, buzzer_on, return_to_main_menu, tap_uid>>

\* monitor_ir_and_trigger(), lines 183-202: up to the debounce sleep
MonitorIrAndTrigger ==
    /\ apc = "none"
    /\ \E r \in IrReads :
         IF alarm_active
         THEN UNCHANGED <<ir_last_state, ir_cur, ir_confirm, base_locked, apc>>
         ELSE IF ~locked
         THEN /\ ir_last_state' = r
              /\ base_locked' = FALSE
              /\ ir_cur' = r
              /\ ir_confirm' = "unset"
              /\ UNCHANGED apc
         ELSE /\ ir_cur' = r
              /\ ir_confirm' = "unset"
              /\ IF r = "None"
                 THEN UNCHANGED <<ir_last_state, base_locked, apc>>
                 ELSE IF ir_last_state = "None"
                 THEN /\ ir_last_state' = r
                      /\ base_locked' = TRUE
                      /\ UNCHANGED apc
                 ELSE IF EdgeShouldTrigger(ir_last_state, r)
                 THEN /\ apc' = "confirm"
                      /\ UNCHANGED <<ir_last_state, base_locked>>
                 ELSE /\ ir_last_state' = r
                      /\ base_locked' = TRUE
                      /\ UNCHANGED apc
    /\ op' = "monitor_ir_and_trigger"
    /\ UNCHANGED <<alarm_active, buzzer_on, return_to_main_menu, tap_uid>>

\* the candidate edge taken for confirmed whatever the re-sample reads
MonitorConfirmNoDebounce ==
    /\ apc = "confirm"
    /\ \E r \in IrReads :
         /\ ir_confirm' = r
         /\ alarm_active' = TRUE
         /\ buzzer_on' = TRUE
         /\ apc' = "modal"
         /\ UNCHANGED <<ir_last_state, base_locked>>
    /\ op' = "monitor_confirm"
    /\ UNCHANGED <<ir_cur, return_to_main_menu, tap_uid>>

\* monitor_ir_and_trigger(), lines 203-213: the re-sample after the hold, then
\* either run_alarm_modal() up to its first credential read, or the baseline update
MonitorConfirm ==
    /\ apc = "confirm"
    /\ \E r \in IrReads :
         /\ ir_confirm' = r
         /\ IF r # "None" /\ r = ir_cur /\ EdgeShouldTrigger(ir_last_state, r)
            THEN /\ alarm_active' = TRUE
                 /\ buzzer_on' = TRUE
                 /\ apc' = "modal"
                 /\ UNCHANGED <<ir_last_state, base_locked>>
            ELSE /\ ir_last_state' = ir_cur
                 /\ base_locked' = TRUE
                 /\ apc' = "none"
                 /\ UNCHANGED <<alarm_active, buzzer_on>>
    /\ op' = "monitor_confirm"
    /\ UNCHANGED <<ir_cur, return_to_main_menu, tap_uid>>

\* the alarm cleared with the _buzz(False) of line 228 left out
AlarmClearedBuzzerLeftOn ==
    /\ UNCHANGED buzzer_on
    /\ alarm_active' = FALSE
    /\ return_to_main_menu' = TRUE
    /\ ir_last_state' = ir_cur
    /\ base_locked' = TRUE
    /\ apc' = "none"

\* the alarm cleared with line 234 (g.return_to_main_menu = True) left out
AlarmClearedNoSignal ==
    /\ buzzer_on' = FALSE
    /\ alarm_active' = FALSE
    /\ UNCHANGED return_to_main_menu
    /\ ir_last_state' = ir_cur
    /\ base_locked' = TRUE
    /\ apc' = "none"

\* lines 227-234 and 209: the alarm is cleared and the monitor returns
AlarmCleared ==
    /\ buzzer_on' = FALSE
    /\ alarm_active' = FALSE
    /\ return_to_main_menu' = TRUE
    /\ ir_last_state' = ir_cur
    /\ base_locked' = TRUE
    /\ apc' = "none"

\* lines 225-226: the loop of run_alarm_modal goes round
AlarmStays ==
    /\ buzzer_on' = TRUE
    /\ UNCHANGED <<alarm_active, return_to_main_menu, ir_last_state, base_locked, apc>>

\* one round of run_alarm_modal with a reader fault taken for a valid tap
AlarmModalStepFailOpen ==
    /\ apc = "modal"
    /\ IF alarm_rfid = "None"
       THEN AlarmCleared /\ UNCHANGED tap_uid
       ELSE \E r \in ReaderOutcomes :
              /\ tap_uid' = r
              /\ IF r = ReadFault \/ RfidOk(alarm_allowed_uids, r)
                 THEN AlarmCleared
                 ELSE AlarmStays
    /\ op' = "alarm_modal"
    /\ UNCHANGED <<ir_cur, ir_confirm>>

\* one round of the loop of run_alarm_modal(): _rfid_ok_blocking(), then break and
\* the finally block, or the buzzer re-asserted and another round
AlarmModalStep ==
    /\ apc = "modal"
    /\ IF alarm_rfid = "None"
       THEN AlarmStays /\ UNCHANGED tap_uid
       ELSE \E r \in ReaderOutcomes :
              /\ tap_uid' = r
              /\ IF r = ReadFault
                 THEN AlarmStays
                 ELSE IF RfidOk(alarm_allowed_uids, r)
                 THEN AlarmCleared
                 ELSE AlarmStays
    /\ op' = "alarm_modal"
    /\ UNCHANGED <<ir_cur, ir_confirm>>

-----------------------------------------------------------------------------
(* F7_auth_service.py *)

\* _normalize_uids(uids): int(u) where it returns, else str(u)
NormalizeUids(S) == { IF CanInt(u) THEN IntOf(u) ELSE Str(u) : u \in S }

\* set_allowed, lines 82-88: the int and the str form of every normalized identifier
BothForms(S) ==
    UNION { IF CanInt(u) THEN {IntOf(u), Str(IntOf(u))} ELSE {Str(u)} : u \in S }

\* is_allowed(uid): allowed = g.rfid_allowed_uids or []
IsAllowed(uid) ==
    LET allowed == IF g_rfid_allowed_uids.isNone THEN {} ELSE g_rfid_allowed_uids.uids
    IN  uid \in allowed \/ Str(uid) \in allowed

\* the assignments of set_allowed(uids)
SetAllowedBody(S) ==
    /\ g_rfid_allowed_uids' = SomeList(BothForms(NormalizeUids(S)))
    /\ set_arg' = S

\* set_allowed(uids)
SetAllowed(S) ==
    /\ tpc = "none"
    /\ SetAllowedBody(S)
    /\ op' = "set_allowed"
    /\ UNCHANGED <<auth_ret, tpc, tap_uid>>

\* init(allowed_uids), lines 71-76: the list handed to set_allowed
AuthInitList(arg, glist) ==
    IF ~arg.isNone THEN arg.uids
    ELSE IF glist.isNone \/ glist.uids = {} THEN ProjectUids
    ELSE glist.uids

\* init(allowed_uids)
AuthServiceInit(arg) ==
    /\ tpc = "none"
    /\ SetAllowedBody(AuthInitList(arg, g_rfid_allowed_uids))
    /\ op' = "auth_service_init"
    /\ UNCHANGED <<auth_ret, tpc, tap_uid>>

\* authorized_tap_blocking() up to its first read_id: prompt shown, blocked
AuthorizedTapBlocking ==
    /\ tpc = "none"
    /\ tpc' = "read"
    /\ auth_ret' = NotReturned
    /\ op' = "authorized_tap_blocking"
    /\ UNCHANGED <<g_rfid_allowed_uids, set_arg, tap_uid>>

\* identifiers a card presents to the service, and the exception
AuthReaderOutcomes == ReaderOutcomes \cup {IntUid("12")}

\* one round of the loop with a denied tap ending the call
AuthorizedTapReadDeniedReturns ==
    /\ tpc = "read"
    /\ \E r \in AuthReaderOutcomes :
         /\ tap_uid' = r
         /\ IF r = ReadFault
            THEN auth_ret' = Returned(FALSE, NoUid)
            ELSE IF IsAllowed(r)
            THEN auth_ret' = Returned(TRUE, r)
            ELSE auth_ret' = Returned(FALSE, r)
         /\ tpc' = "none"
    /\ op' = "authorized_tap_read"
    /\ UNCHANGED <<g_rfid_allowed_uids, set_arg>>

\* one round of the loop of authorized_tap_blocking(), lines 112-125: read_id
\* raises and the call returns (False, None); or the identifier is allowed and
\* the call returns (True, uid); or it is denied and the loop prompts again
AuthorizedTapRead ==
    /\ tpc = "read"
    /\ \E r \in AuthReaderOutcomes :
         /\ tap_uid' = r
         /\ IF r = ReadFault
            THEN /\ auth_ret' = Returned(FALSE, NoUid)
                 /\ tpc' = "none"
            ELSE IF IsAllowed(r)
            THEN /\ auth_ret' = Returned(TRUE, r)
                 /\ tpc' = "none"
            ELSE UNCHANGED <<auth_ret, tpc>>
    /\ op' = "authorized_tap_read"
    /\ UNCHANGED <<g_rfid_allowed_uids, set_arg>>

-----------------------------------------------------------------------------
(* F2_door.py *)

\* what hal_servo.set_servo_position can do: return, or raise
ServoOutcomes == {TRUE, FALSE}

\* angle arguments explored: below the range, inside it, above it, nan, and
\* one float() raises on; 180 itself is left out, so that an angle of 180 in
\* the state is always the result of clamping
AngleArgs == {Num(0 - 10), Num(0), Num(45), Num(90), Num(200), NaN, BadAngle}

\* float(a), 0.0 where it raises
FloatOf(a) == IF a.kind = "bad" THEN Num(0) ELSE a

\* x < y on floats: False whenever one of them is nan
FloatLess(x, y) == x.kind = "num" /\ y.kind = "num" /\ x.v < y.v

\* min(x, y) and max(x, y) as Python computes them: the first argument is kept
\* unless the second compares below (above) it
PyMin(x, y) == IF FloatLess(y, x) THEN y ELSE x
PyMax(x, y) == IF FloatLess(x, y) THEN y ELSE x

\* _clamp_angle(a) with the range check left out
ClampAngleUnchecked(a) == FloatOf(a)

\* _clamp_angle(a): max(0.0, min(180.0, a))
ClampAngle(a) == PyMax(Num(0), PyMin(Num(180), FloatOf(a)))

\* _apply_servo() with angle=None, called once g.locked and the angles are set:
\* the angle of the current state is clamped and sent, an exception is caught
ApplyServo ==
    \E ok \in ServoOutcomes :
      /\ servo_ok' = ok
      /\ servo_angle' = ClampAngle(IF locked' THEN g_lock_angle' ELSE g_unlock_angle')

\* toggle_lock() with the flag put back when the servo raised
ToggleLockRollsBack ==
    /\ \E ok \in ServoOutcomes :
         /\ servo_ok' = ok
         /\ locked' = IF ok THEN ~locked ELSE locked
         /\ servo_angle' = ClampAngle(IF locked THEN g_unlock_angle ELSE g_lock_angle)
    /\ UNCHANGED <<g_lock_angle, g_unlock_angle>>
    /\ op' = "toggle_lock"

\* lock(): g.locked = True, then _apply_servo()
Lock ==
    /\ locked' = TRUE
    /\ UNCHANGED <<g_lock_angle, g_unlock_angle>>
    /\ ApplyServo
    /\ op' = "lock"

\* unlock(): g.locked = False, then _apply_servo()
Unlock ==
    /\ locked' = FALSE
    /\ UNCHANGED <<g_lock_angle, g_unlock_angle>>
    /\ ApplyServo
    /\ op' = "unlock"

\* toggle_lock(): unlock() or lock() sets g.locked, then _apply_servo() catches
\* whatever the servo raises
ToggleLock ==
    /\ locked' = ~locked
    /\ UNCHANGED <<g_lock_angle, g_unlock_angle>>
    /\ ApplyServo
    /\ op' = "toggle_lock"

\* init(lock_angle, unlock_angle, default_state), lines 69-74
DoorInit(la, ua, st) ==
    /\ g_lock_angle' = ClampAngle(la)
    /\ g_unlock_angle' = ClampAngle(ua)
    /\ locked' = st
    /\ ApplyServo
    /\ op' = "door_init"

\* set_angles(lock_angle, unlock_angle), lines 107-109
SetAngles(la, ua) ==
    /\ g_lock_angle' = ClampAngle(la)
    /\ g_unlock_angle' = ClampAngle(ua)
    /\ UNCHANGED locked
    /\ ApplyServo
    /\ op' = "set_angles"

-----------------------------------------------------------------------------
(* Integrate.py: the keypad callback and g.shared_keypad_queue *)

\* g.py line 10: queue.Queue(maxsize=64)
QueueMax == 64

\* a key as the keypad HAL hands it to the callback: a digit or a symbol
IntKey(d) == [form |-> "int", d |-> d]
StrKey(d) == [form |-> "str", d |-> d]
\* k = str(k)
KeyStr(k) == k.d

\* key_pressed(k), first put_nowait, with a full queue giving the key up
KeyPressedPutDropsNewest(k) ==
    /\ kpc = "idle"
    /\ IF Len(queue) < QueueMax
       THEN /\ queue' = Append(queue, KeyStr(k))
            /\ qtag' = Append(qtag, alarm_active)
       ELSE UNCHANGED <<queue, qtag>>
    /\ presses' = presses + 1
    /\ UNCHANGED op
    /\ UNCHANGED <<kpc, kkey, consumed, key_phase>>

\* key_pressed(k) on a queue that has no maxsize
KeyPressedPutUnbounded(k) ==
    /\ kpc = "idle"
    /\ queue' = Append(queue, KeyStr(k))
    /\ qtag' = Append(qtag, alarm_active)
    /\ presses' = presses + 1
    /\ UNCHANGED op
    /\ UNCHANGED <<kpc, kkey, consumed, key_phase>>

\* key_pressed(k), lines 26-29: k = str(k); put_nowait(k), or queue.Full caught
KeyPressedPut(k) ==
    /\ kpc = "idle"
    /\ IF Len(queue) < QueueMax
       THEN /\ queue' = Append(queue, KeyStr(k))
            /\ qtag' = Append(qtag, alarm_active)
            /\ presses' = presses + 1
            /\ UNCHANGED <<kpc, kkey>>
       ELSE /\ kpc' = "evict"
            /\ kkey' = KeyStr(k)
            /\ UNCHANGED <<queue, qtag, presses>>
    /\ UNCHANGED op
    /\ UNCHANGED <<consumed, key_phase>>

\* key_pressed(k) with the get_nowait() of lines 30-33 left out
KeyPressedEvictSkips ==
    /\ kpc = "evict"
    /\ kpc' = "retry"
    /\ UNCHANGED op
    /\ UNCHANGED <<queue, qtag, presses, kkey, consumed, key_phase>>

\* key_pressed(k), lines 30-33: get_nowait(), queue.Empty ignored
KeyPressedEvict ==
    /\ kpc = "evict"
    /\ IF queue # <<>>
       THEN /\ queue' = Tail(queue)
            /\ qtag' = Tail(qtag)
       ELSE UNCHANGED <<queue, qtag>>
    /\ kpc' = "retry"
    /\ UNCHANGED op
    /\ UNCHANGED <<presses, kkey, consumed, key_phase>>

\* key_pressed(k), line 34: the second put_nowait(k), whose queue.Full is not caught
KeyPressedRetry ==
    /\ kpc = "retry"
    /\ IF Len(queue) < QueueMax
       THEN /\ queue' = Append(queue, kkey)
            /\ qtag' = Append(qtag, alarm_active)
            /\ kpc' = "idle"
       ELSE /\ kpc' = "raised"
            /\ UNCHANGED <<queue, qtag>>
    /\ presses' = presses + 1
    /\ UNCHANGED op
    /\ UNCHANGED <<kkey, consumed, key_phase>>

\* the consumer's g.shared_keypad_queue.get(timeout=0.1) taking an event
ConsumerGet ==
    /\ queue # <<>>
    /\ consumed < MaxConsumed
    /\ queue' = Tail(queue)
    /\ qtag' = Tail(qtag)
    /\ consumed' = consumed + 1
    /\ UNCHANGED op
    /\ UNCHANGED <<presses, kpc, kkey, key_phase>>

(* The queue on its own: the scanner presses the keys of the keypad in a    *)
(* cycle, starting anywhere in it, so that every queued event is told from  *)
(* its neighbours; the consumer takes events at any moment.                 *)

\* the twelve keys of the keypad, in the order the stream presses them
KeypadCycle ==
    <<IntKey("1"), IntKey("2"), IntKey("3"), IntKey("4"), IntKey("5"), IntKey("6"),
      IntKey("7"), IntKey("8"), IntKey("9"), StrKey("*"), IntKey("0"), StrKey("#")>>

\* the n-th key pressed (n = 1, 2, ...)
StreamKey(n) == KeypadCycle[((n - 1 + key_phase) % Len(KeypadCycle)) + 1]

InitQueue ==
    /\ EngineInit(TRUE, NoneList)
    /\ slide_switch = 0
    /\ g_rfid_allowed_uids = GModuleAllowed
    /\ alarm_allowed_uids = NoneList
    /\ alarm_rfid = "reader"
    /\ alarm_trigger_edge = "falling"
    /\ AlarmAtRest
    /\ AuthAtRest
    /\ RegAtRest
    /\ ChkAtRest
    /\ DoorAtRest
    /\ MenuAtRest
    /\ queue = <<>>
    /\ qtag = <<>>
    /\ presses = 0
    /\ kpc = "idle"
    /\ kkey = ""
    /\ consumed = 0
    /\ key_phase \in 0..(Len(KeypadCycle) - 1)
    /\ op = "init"

queueFrame == <<cfgVars, authVars, regVars, chkVars, engVars, slide_switch, alarmVars, tap_uid, doorVars, menuVars>>

NextQueue ==
    \/ /\ presses < QueueMax + MaxExtraPresses
       /\ KeyPressedPut(StreamKey(presses + 1))
       /\ UNCHANGED queueFrame
    \/ KeyPressedEvict /\ UNCHANGED queueFrame
    \/ KeyPressedRetry /\ UNCHANGED queueFrame
    \/ ConsumerGet /\ UNCHANGED queueFrame

SpecQueue == InitQueue /\ [][NextQueue]_vars

\* C7: with no consumer activity, after n completed key_pressed calls the queue
\* holds exactly the last min(n, 64) keys pressed, oldest first; so the 65th
\* call evicts the first key and admits the 65th.
C7_KeepsLatestInOrder ==
    (consumed = 0 /\ kpc = "idle")
    => LET n == presses
           m == IF n < QueueMax THEN n ELSE QueueMax
       IN  queue = [i \in 1..m |-> KeyStr(StreamKey(n - m + i))]

\* the 65th key has been pressed into a full queue that nobody read
C7_Witness ==
    /\ consumed = 0
    /\ kpc = "idle"
    /\ presses = QueueMax + 1
    /\ Len(queue) = QueueMax

\* C23: whatever the consumer does in between, no put_nowait of key_pressed
\* raises out of the call, every step of the call is one the scanner can take
\* at once, and the call ends with its key at the tail of the queue: the first
\* put admits it when there is room, else the put after the eviction does.
C23_KeyPressedAlwaysAdmits ==
    /\ [](kpc # "raised")
    /\ [][ /\ (kpc = "idle" /\ presses' = presses + 1)
              => (queue' = Append(queue, KeyStr(StreamKey(presses'))) /\ kpc' = "idle")
           /\ (kpc = "idle" /\ kpc' # "idle")
              => (Len(queue) = QueueMax /\ kpc' = "evict" /\ kkey' = KeyStr(StreamKey(presses + 1)))
           /\ (kpc = "evict" /\ kpc' # "evict") => (kpc' = "retry")
           /\ (kpc = "retry" /\ kpc' # "retry")
              => (/\ kpc' = "idle"
                  /\ presses' = presses + 1
                  /\ queue' = Append(queue, kkey)) ]_vars
    /\ [](ENABLED (KeyPressedEvict /\ UNCHANGED queueFrame) \/ kpc # "evict")
    /\ [](ENABLED (KeyPressedRetry /\ UNCHANGED queueFrame) \/ kpc # "retry")

\* a key pressed into a full queue was admitted although the consumer took an
\* event while the call was under way
C23_Witness ==
    /\ kpc = "idle"
    /\ presses = QueueMax + 1
    /\ consumed = 1
    /\ Len(queue) = QueueMax - 1
    /\ queue[Len(queue)] = KeyStr(StreamKey(presses))

\* C26: the queue never holds more than 64 events.
C26_QueueAtMostMax ==
    Len(queue) <= QueueMax

\* the queue is full again after an overflow and a consumer get
C26_Witness ==
    /\ Len(queue) = QueueMax
    /\ presses = QueueMax + 2
    /\ consumed = 1
    /\ kpc = "idle"

\* C31: key_pressed removes a queued event only from a queue that holds 64
\* events at that moment: the eviction drops nothing once the consumer has
\* made room after the failed put.
C31_EvictsOnlyWhenFull ==
    [][ (kpc = "evict" /\ kpc' = "retry" /\ Len(queue') < Len(queue))
        => (Len(queue) = QueueMax) ]_vars

-----------------------------------------------------------------------------
(* The engine module on its own: any sequence of calls of its public        *)
(* functions, each call running to its return before the next, while the    *)
(* slide switch moves freely.                                               *)

InitEngine ==
    /\ \E req \in BOOLEAN, arg \in AllowArgs : EngineInit(req, arg)
    /\ slide_switch \in {0, 1}
    /\ g_rfid_allowed_uids = GModuleAllowed
    /\ alarm_allowed_uids = NoneList
    /\ alarm_rfid = "reader"
    /\ alarm_trigger_edge = "falling"
    /\ AlarmAtRest
    /\ AuthAtRest
    /\ RegAtRest
    /\ ChkAtRest
    /\ DoorAtRest
    /\ MenuAtRest
    /\ QueueAtRest
    /\ op = "init"

engineFrame == <<cfgVars, authVars, regVars, chkVars, alarmVars, doorVars, menuVars, queueVars>>

NextEngine ==
    \/ StartEngine /\ UNCHANGED <<engineFrame, slide_switch>>
    \/ StopEngine /\ UNCHANGED <<engineFrame, slide_switch>>
    \/ ToggleEngine /\ UNCHANGED <<engineFrame, slide_switch>>
    \/ EnforceSwitchSafety /\ UNCHANGED <<engineFrame, slide_switch>>
    \/ AuthenticateRfid /\ UNCHANGED <<engineFrame, slide_switch>>
    \/ WaitForSwitchOn /\ UNCHANGED <<engineFrame, slide_switch>>
    \/ EngineRaised /\ UNCHANGED <<engineFrame, slide_switch>>
    \/ SwitchFlip /\ UNCHANGED <<engineFrame, engVars, tap_uid>>

SpecEngine == InitEngine /\ [][NextEngine]_vars


\* the same, with the polling loop of _wait_for_switch_on (lines 90-91) running
\* on: the thread inside it keeps being scheduled, so a read that can be taken
\* is taken
SpecEngineLive ==
    /\ InitEngine
    /\ [][NextEngine]_vars
    /\ WF_vars(WaitForSwitchOn /\ UNCHANGED <<engineFrame, slide_switch>>)

-----------------------------------------------------------------------------
(* The access control service on its own: init(), then set_allowed() and     *)
(* authorized_tap_blocking() calls in any order, one at a time.              *)

\* identifiers explored in allow-lists: one number as an int, as its decimal
\* text and as a zero-padded text, a text that is no number, and a project tag
AuthIds == {IntUid("12"), StrUid("12"), PaddedStrUid("12", 2), WordUid("abc"),
            IntUid("966206689390")}

\* allowed_uids arguments explored for init() and set_allowed()
AuthLists == SUBSET AuthIds

InitAuth ==
    /\ EngineInit(TRUE, NoneList)
    /\ slide_switch = 0
    /\ \E arg \in {NoneList} \cup {SomeList(S) : S \in AuthLists} :
         /\ set_arg = AuthInitList(arg, GModuleAllowed)
         /\ g_rfid_allowed_uids = SomeList(BothForms(NormalizeUids(set_arg)))
    /\ alarm_allowed_uids = NoneList
    /\ alarm_rfid = "reader"
    /\ alarm_trigger_edge = "falling"
    /\ AlarmAtRest
    /\ auth_ret = NotReturned
    /\ tpc = "none"
    /\ RegAtRest
    /\ ChkAtRest
    /\ DoorAtRest
    /\ MenuAtRest
    /\ QueueAtRest
    /\ op = "auth_service_init"

authFrame == <<require_rfid_each_start, eng_allowed_uids, alarm_allowed_uids, alarm_rfid,
               alarm_trigger_edge, regVars, chkVars, engVars, slide_switch, alarmVars, doorVars,
               menuVars, queueVars>>

NextAuth ==
    \/ \E S \in AuthLists : SetAllowed(S) /\ UNCHANGED authFrame
    \/ \E arg \in {NoneList} \cup {SomeList(S) : S \in AuthLists} :
         AuthServiceInit(arg) /\ UNCHANGED authFrame
    \/ AuthorizedTapBlocking /\ UNCHANGED authFrame
    \/ AuthorizedTapRead /\ UNCHANGED authFrame

SpecAuth == InitAuth /\ [][NextAuth]_vars

\* C17: a round of authorized_tap_blocking whose read_id raised returns
\* (False, None); one that read an identifier is_allowed accepts returns
\* (True, that identifier); one that read any other identifier does not return
\* and the call is blocked in read_id again.
C17_ReturnsOnlyAllowed ==
    [][ (tpc = "read")
        => IF tap_uid' = ReadFault
           THEN auth_ret' = Returned(FALSE, NoUid) /\ tpc' = "none"
           ELSE IF IsAllowed(tap_uid')
           THEN auth_ret' = Returned(TRUE, tap_uid') /\ tpc' = "none"
           ELSE auth_ret' = NotReturned /\ tpc' = "read" ]_vars

\* a denied identifier was tapped and the call is waiting for the next tap
C17_Witness ==
    /\ op = "authorized_tap_read"
    /\ tpc = "read"
    /\ auth_ret = NotReturned
    /\ tap_uid \in TapUids
    /\ ~IsAllowed(tap_uid)

\* the numeric and the text form of an identifier
Forms(u) == {u, Str(u)} \cup (IF CanInt(u) THEN {IntOf(u)} ELSE {})

\* C18: after set_allowed(S), is_allowed is True of every identifier of S in its
\* numeric and in its text form, and False of every identifier none of whose
\* forms is in S.
C18_AllowedIffListed ==
    /\ \A u \in set_arg : \A f \in Forms(u) : IsAllowed(f)
    /\ \A v \in AuthIds \cup TapUids :
         (Forms(v) \cap set_arg = {}) => ~IsAllowed(v)

-----------------------------------------------------------------------------
(* The door module on its own: init(), then any sequence of its public calls *)
(* with any angle arguments.                                                 *)

InitDoor ==
    /\ EngineInit(TRUE, NoneList)
    /\ slide_switch = 0
    /\ g_rfid_allowed_uids = GModuleAllowed
    /\ alarm_allowed_uids = NoneList
    /\ alarm_rfid = "reader"
    /\ alarm_trigger_edge = "falling"
    /\ AlarmAtRest
    /\ AuthAtRest
    /\ RegAtRest
    /\ ChkAtRest
    /\ \E la \in AngleArgs, ua \in AngleArgs, st \in BOOLEAN :
         /\ g_lock_angle = ClampAngle(la)
         /\ g_unlock_angle = ClampAngle(ua)
         /\ locked = st
         /\ servo_angle = ClampAngle(IF st THEN g_lock_angle ELSE g_unlock_angle)
    /\ servo_ok \in ServoOutcomes
    /\ MenuAtRest
    /\ QueueAtRest
    /\ op = "door_init"

doorFrame == <<cfgVars, authVars, regVars, chkVars, engVars, slide_switch, alarmVars, tap_uid,
               menuVars, queueVars>>

NextDoor ==
    \/ \E la \in AngleArgs, ua \in AngleArgs, st \in BOOLEAN :
         DoorInit(la, ua, st) /\ UNCHANGED doorFrame
    \/ \E la \in AngleArgs, ua \in AngleArgs : SetAngles(la, ua) /\ UNCHANGED doorFrame
    \/ Lock /\ UNCHANGED doorFrame
    \/ Unlock /\ UNCHANGED doorFrame
    \/ ToggleLock /\ UNCHANGED doorFrame

SpecDoor == InitDoor /\ [][NextDoor]_vars

\* a float within [0, 180]
InServoRange(x) == x.kind = "num" /\ 0 <= x.v /\ x.v <= 180

\* C19: after any sequence of door calls with any angle arguments,
\* g.lock_angle, g.unlock_angle and the last angle sent to the servo are numbers
\* within [0, 180], and the servo is sent the angle of the current lock state.
C19_AnglesWithinRange ==
    /\ InServoRange(g_lock_angle)
    /\ InServoRange(g_unlock_angle)
    /\ InServoRange(servo_angle)
    /\ servo_angle = (IF locked THEN g_lock_angle ELSE g_unlock_angle)

\* set_angles was given a lock angle above the range (or nan) and an unlock
\* angle below it (or invalid): both were stored clamped, and the servo of the
\* unlocked door was sent 0
C19_Witness ==
    /\ op = "set_angles"
    /\ g_lock_angle = Num(180)
    /\ g_unlock_angle = Num(0)
    /\ ~locked
    /\ servo_angle = Num(0)


-----------------------------------------------------------------------------
(* F8_user_manage.py and test1.py: the user registry.  The CSV version      *)
(* rewrites the whole file on every change and reads every value back as a  *)
(* text; the MySQL version opens a connection for every call.  Of the six   *)
(* columns the model keeps RFID and Username; Phone stands for the other    *)
(* four, which no call compares.                                            *)

\* `if len(users) >= 3` / `if cur.fetchone()["total"] >= 3`
MaxUsers == 3

\* FIELDNAMES, as far as the model keeps them apart
RegFields == {"RFID", "Username", "Phone"}
\* field arguments explored for update_user_field: the columns and a name that is none
RegFieldArgs == RegFields \cup {"Email"}

\* rfid arguments explored: an int and a text of the same digits, two more texts
RegRfids == {IntUid("1"), StrUid("1"), StrUid("2"), StrUid("3")}
\* username arguments explored
RegNames == {WordUid("alice"), WordUid("bob"), WordUid("carol")}
\* new_value arguments explored for update_user_field: an rfid and a username in use
RegNewValues == {IntUid("2"), WordUid("alice")}

\* what get_connection() gives: TRUE for a connection, FALSE for None; a statement
\* that raises Error is rolled back and ends the call the same way.  The CSV
\* version has no connection to lose.
RegConnOutcomes == IF reg_backend = "mysql" THEN {TRUE, FALSE} ELSE {TRUE}

\* the row a call stores: csv.DictWriter and the INSERT both keep the text of a value
RegRow(rfid, username) == [RFID |-> Str(rfid), Username |-> Str(username)]

\* whether a stored value equals an argument: Python's == on the text read from the
\* file and the argument as passed; the SELECT compares it with the column
RegSame(stored, arg) == IF reg_backend = "csv" THEN stored = arg ELSE stored = Str(arg)

\* the positions of the rows of us whose Username is the argument
RegMatches(us, username) == {i \in 1..Len(us) : RegSame(us[i].Username, username)}

\* the rows of us at the positions not in D, in order
RECURSIVE RegWithout(_, _)
RegWithout(us, D) ==
    IF us = <<>> THEN <<>>
    ELSE LET rest == RegWithout(SubSeq(us, 1, Len(us) - 1), D)
         IN IF Len(us) \in D THEN rest ELSE Append(rest, us[Len(us)])

\* add_user without the count check
AddUserUncapped(rfid, username) ==
    /\ \E conn \in RegConnOutcomes :
         IF ~conn
         THEN /\ reg_ret' = FALSE
              /\ users' = users
         ELSE IF \E i \in 1..Len(users) :
                    RegSame(users[i].RFID, rfid) \/ RegSame(users[i].Username, username)
              THEN /\ reg_ret' = FALSE
                   /\ users' = users
              ELSE /\ users' = Append(users, RegRow(rfid, username))
                   /\ reg_ret' = TRUE
    /\ op' = "add_user"
    /\ UNCHANGED reg_backend

\* add_user(rfid, username, ...)
AddUser(rfid, username) ==
    /\ \E conn \in RegConnOutcomes :
         IF ~conn
         THEN /\ reg_ret' = FALSE
              /\ users' = users
         ELSE IF Len(users) >= MaxUsers
              THEN /\ reg_ret' = FALSE
                   /\ users' = users
              ELSE IF \E i \in 1..Len(users) :
                         RegSame(users[i].RFID, rfid) \/ RegSame(users[i].Username, username)
                   THEN /\ reg_ret' = FALSE
                        /\ users' = users
                   ELSE /\ users' = Append(users, RegRow(rfid, username))
                        /\ reg_ret' = TRUE
    /\ op' = "add_user"
    /\ UNCHANGED reg_backend

\* update_user_field(username, field, new_value): the CSV version changes the
\* first row of that Username, the UPDATE statement every row of it
UpdateUserField(username, field, new_value) ==
    /\ IF field \notin RegFields
       THEN /\ reg_ret' = FALSE
            /\ users' = users
       ELSE \E conn \in RegConnOutcomes :
              LET M == RegMatches(users, username)
                  T == IF reg_backend = "csv" /\ M # {}
                       THEN {CHOOSE i \in M : \A j \in M : i <= j}
                       ELSE M
              IN IF ~conn
                 THEN /\ reg_ret' = FALSE
                      /\ users' = users
                 ELSE /\ users' = [i \in 1..Len(users) |->
                                     IF i \in T /\ field # "Phone"
                                     THEN [users[i] EXCEPT ![field] = Str(new_value)]
                                     ELSE users[i]]
                      /\ reg_ret' = (M # {})
    /\ op' = "update_user_field"
    /\ UNCHANGED reg_backend

\* delete_user(username)
DeleteUser(username) ==
    /\ \E conn \in RegConnOutcomes :
         LET M == RegMatches(users, username)
         IN IF ~conn
            THEN /\ reg_ret' = FALSE
                 /\ users' = users
            ELSE /\ users' = RegWithout(users, M)
                 /\ reg_ret' = (M # {})
    /\ op' = "delete_user"
    /\ UNCHANGED reg_backend

\* the registry calls made one after another, in any order and with any
\* arguments, on a registry that starts empty
InitRegistry ==
    /\ EngineInit(TRUE, NoneList)
    /\ slide_switch = 0
    /\ g_rfid_allowed_uids = GModuleAllowed
    /\ alarm_allowed_uids = NoneList
    /\ alarm_rfid = "reader"
    /\ alarm_trigger_edge = "falling"
    /\ AlarmAtRest
    /\ AuthAtRest
    /\ DoorAtRest
    /\ MenuAtRest
    /\ QueueAtRest
    /\ users = <<>>
    /\ reg_ret = FALSE
    /\ reg_backend \in {"csv", "mysql"}
    /\ ChkAtRest
    /\ op = "init"

registryFrame == <<cfgVars, authVars, chkVars, engVars, slide_switch, alarmVars, tap_uid, doorVars,
                   menuVars, queueVars>>

NextRegistry ==
    \/ \E rfid \in RegRfids, username \in RegNames :
         AddUser(rfid, username) /\ UNCHANGED registryFrame
    \/ \E username \in RegNames, field \in RegFieldArgs, v \in RegNewValues :
         UpdateUserField(username, field, v) /\ UNCHANGED registryFrame
    \/ \E username \in RegNames : DeleteUser(username) /\ UNCHANGED registryFrame

SpecRegistry == InitRegistry /\ [][NextRegistry]_vars

\* C27: the registry never holds more than three entries, and an add_user call
\* made on a registry of three entries returns False and leaves every entry as
\* it was.
C27_AtMostThreeUsers ==
    /\ [](Len(users) <= MaxUsers)
    /\ [][ (op' = "add_user" /\ Len(users) = MaxUsers)
           => (reg_ret' = FALSE /\ users' = users) ]_vars

\* a registry of three entries on which add_user has just returned False
C27_Witness ==
    /\ op = "add_user"
    /\ Len(users) = MaxUsers
    /\ reg_ret = FALSE


\* C37: no two entries of the registry share a Username and no two share an
\* RFID, whatever add_user, update_user_field and delete_user calls were made.
C37_NoDuplicates ==
    \A i, j \in 1..Len(users) :
        (i # j) => (users[i].Username # users[j].Username /\ users[i].RFID # users[j].RFID)

-----------------------------------------------------------------------------
(* The three credential checks side by side: the engine, the alarm and the  *)
(* access control service are each initialised once with the same           *)
(* allowed_uids argument, in any order, starting from the state g.py leaves; *)
(* identifiers are then presented and each check gives its verdict.         *)

\* the modules that hold an allow-list
CheckModules == {"engine", "alarm", "service"}

\* allowed_uids arguments explored: None, an empty list, and lists holding a
\* project tag as an int, as a text, and a short tag as a zero-padded text
CheckConfigs == {NoneList, SomeList({}), SomeList({IntUid("966206689390")}),
                 SomeList({StrUid("966206689390")}), SomeList({PaddedStrUid("12", 2)}),
                 SomeList({IntUid("12"), IntUid("966206689390")})}

\* identifiers presented: read_id returns an int
CheckUids == {IntUid("966206689390"), IntUid("470912245720"), IntUid("988692462534"),
              IntUid("111"), IntUid("12")}

\* F3_4 init(require_rfid_each_start=True, allowed_uids=allow_cfg)
EngineInitCall ==
    /\ "engine" \notin inited
    /\ require_rfid_each_start' = TRUE
    /\ eng_allowed_uids' = SetOrNone(allow_cfg)
    /\ inited' = inited \cup {"engine"}
    /\ op' = "engine_init"
    /\ UNCHANGED <<g_rfid_allowed_uids, alarm_allowed_uids, set_arg, tap_uid, verdict, allow_cfg>>

\* F9 init(allowed_uids=allow_cfg)
AlarmInitCall ==
    /\ "alarm" \notin inited
    /\ alarm_allowed_uids' = AlarmInitAllowed(allow_cfg)
    /\ inited' = inited \cup {"alarm"}
    /\ op' = "alarm_init"
    /\ UNCHANGED <<require_rfid_each_start, eng_allowed_uids, g_rfid_allowed_uids, set_arg,
                   tap_uid, verdict, allow_cfg>>

\* F7 init(allowed_uids=allow_cfg)
ServiceInitCall ==
    /\ "service" \notin inited
    /\ SetAllowedBody(AuthInitList(allow_cfg, g_rfid_allowed_uids))
    /\ inited' = inited \cup {"service"}
    /\ op' = "auth_service_init"
    /\ UNCHANGED <<require_rfid_each_start, eng_allowed_uids, alarm_allowed_uids,
                   tap_uid, verdict, allow_cfg>>

\* an identifier is read and handed to is_allowed, to the verdict of
\* _rfid_ok_blocking and to the verdict of _authenticate_rfid
PresentUid(uid) ==
    /\ inited = CheckModules
    /\ tap_uid' = uid
    /\ verdict' = [done    |-> TRUE,
                   service |-> IsAllowed(uid),
                   alarm   |-> RfidOk(alarm_allowed_uids, uid),
                   engine  |-> (~require_rfid_each_start) \/ AuthAccepts(eng_allowed_uids, uid)]
    /\ op' = "present_uid"
    /\ UNCHANGED <<require_rfid_each_start, eng_allowed_uids, g_rfid_allowed_uids,
                   alarm_allowed_uids, set_arg, inited, allow_cfg>>

InitCheck ==
    /\ EngineInit(TRUE, NoneList)
    /\ slide_switch = 0
    /\ g_rfid_allowed_uids = GModuleAllowed
    /\ alarm_allowed_uids = NoneList
    /\ alarm_rfid = "reader"
    /\ alarm_trigger_edge = "falling"
    /\ AlarmAtRest
    /\ AuthAtRest
    /\ RegAtRest
    /\ allow_cfg \in CheckConfigs
    /\ inited = {}
    /\ verdict = NoVerdict
    /\ DoorAtRest
    /\ MenuAtRest
    /\ QueueAtRest
    /\ op = "init"

checkFrame == <<alarm_rfid, alarm_trigger_edge, auth_ret, tpc, regVars, engVars, slide_switch,
                alarmVars, doorVars, menuVars, queueVars>>

NextCheck ==
    \/ EngineInitCall /\ UNCHANGED checkFrame
    \/ AlarmInitCall /\ UNCHANGED checkFrame
    \/ ServiceInitCall /\ UNCHANGED checkFrame
    \/ \E uid \in CheckUids : PresentUid(uid) /\ UNCHANGED checkFrame

SpecCheck == InitCheck /\ [][NextCheck]_vars

\* C33: once the three modules are initialised with the same allow-list
\* argument, is_allowed, the alarm's _rfid_ok_blocking and the engine's
\* _authenticate_rfid give the same verdict on every identifier presented.
C33_SameVerdict ==
    verdict.done => (verdict.service = verdict.alarm /\ verdict.alarm = verdict.engine)

-----------------------------------------------------------------------------
(* Integrate.py main() and F1_menu.py idle_menu_loop(): the foreground thread *)

\* the keys the scanner presses in the system specification
SystemKeys == {IntKey("1"), IntKey("2"), IntKey("6"), StrKey("*")}

\* g.PAGES = len(idle_menu)
PAGES == 3

\* g.rfid_allowed_uids when main() starts: as g.py leaves it, or a list the
\* integrator has assigned to it
GAllowedChoices == {GModuleAllowed, SomeList({IntUid("966206689390")})}

Init ==
    /\ EngineInit(TRUE, NoneList)
    /\ slide_switch \in {0, 1}
    /\ g_rfid_allowed_uids \in GAllowedChoices
    /\ alarm_allowed_uids = AlarmInitAllowed(g_rfid_allowed_uids)
    /\ alarm_rfid \in {"reader", "None"}
    /\ alarm_trigger_edge \in {"rising", "falling", "any"}
    /\ AlarmAtRest
    /\ AuthAtRest
    /\ RegAtRest
    /\ ChkAtRest
    /\ DoorAtRest
    /\ pc = "launch"
    /\ loop = "main"
    /\ current_page = 0
    /\ QueueAtRest
    /\ op = "init"

queueRest == <<presses, kpc, kkey, consumed, key_phase>>

\* ensure_switch_off_at_launch() returning whatever the switch reads
EnsureSwitchOffAtLaunchNoWait ==
    /\ pc = "launch"
    /\ pc' = "safety"
    /\ op' = "ensure_switch_off_at_launch"
    /\ UNCHANGED <<cfgVars, authVars, regVars, chkVars, engVars, slide_switch, alarmVars, tap_uid, doorVars,
                   loop, current_page, queueVars>>

\* ensure_switch_off_at_launch(), one read of the switch; then the boot text
EnsureSwitchOffAtLaunch ==
    /\ pc = "launch"
    /\ pc' = IF slide_switch = 0 THEN "safety" ELSE "launch"
    /\ op' = "ensure_switch_off_at_launch"
    /\ UNCHANGED <<cfgVars, authVars, regVars, chkVars, engVars, slide_switch, alarmVars, tap_uid, doorVars,
                   loop, current_page, queueVars>>

\* step 1 of an iteration going straight on to the dequeue, the poll left out
TickSafetySkipsMonitor ==
    /\ pc = "safety"
    /\ EnforceSwitchSafety
    /\ pc' = "input"
    /\ UNCHANGED <<cfgVars, authVars, regVars, chkVars, slide_switch, alarmVars, doorVars,
                   loop, current_page, queueVars>>

\* both loops, step 1: enforce_switch_safety()
TickSafety ==
    /\ pc = "safety"
    /\ EnforceSwitchSafety
    /\ pc' = "monitor"
    /\ UNCHANGED <<cfgVars, authVars, regVars, chkVars, slide_switch, alarmVars, doorVars,
                   loop, current_page, queueVars>>

\* where the foreground thread is once a step of the monitor is done
AfterMonitor == IF apc' = "none" THEN "input" ELSE "monitor"

\* both loops, step 2: alarm.monitor_ir_and_trigger()
TickMonitor ==
    /\ pc = "monitor"
    /\ MonitorIrAndTrigger
    /\ pc' = AfterMonitor
    /\ UNCHANGED <<cfgVars, authVars, regVars, chkVars, engVars, slide_switch, doorVars,
                   loop, current_page, queueVars>>

TickMonitorConfirm ==
    /\ pc = "monitor"
    /\ MonitorConfirm
    /\ pc' = AfterMonitor
    /\ UNCHANGED <<cfgVars, authVars, regVars, chkVars, engVars, slide_switch, doorVars,
                   loop, current_page, queueVars>>

TickAlarmModal ==
    /\ pc = "monitor"
    /\ AlarmModalStep
    /\ pc' = AfterMonitor
    /\ UNCHANGED <<cfgVars, authVars, regVars, chkVars, engVars, slide_switch, doorVars,
                   loop, current_page, queueVars>>

\* the "while True: get_nowait()" drain of both loops
DrainKeys ==
    /\ queue' = <<>>
    /\ qtag' = <<>>
    /\ UNCHANGED queueRest

\* get(timeout=0.1) returning the oldest event
TakeKey ==
    /\ queue' = Tail(queue)
    /\ qtag' = Tail(qtag)
    /\ UNCHANGED queueRest

\* main(), lines 73-97: the alarm check, the dequeue and the dispatch
MainInput ==
    /\ pc = "input"
    /\ loop = "main"
    /\ pc' = "safety"
    /\ IF alarm_active
       THEN /\ DrainKeys
            /\ op' = "drain"
            /\ UNCHANGED <<doorVars, loop>>
       ELSE IF queue = <<>>
       THEN /\ op' = "no_key"
            /\ UNCHANGED <<doorVars, loop, queueVars>>
       ELSE IF Head(queue) = "1"
       THEN /\ TakeKey
            /\ loop' = "idle"
            /\ op' = "idle_menu_loop"
            /\ UNCHANGED doorVars
       ELSE IF Head(queue) = "2"
       THEN /\ TakeKey
            /\ ToggleLock
            /\ UNCHANGED loop
       ELSE /\ TakeKey
            /\ op' = "key_ignored"
            /\ UNCHANGED <<doorVars, loop>>
    /\ UNCHANGED <<cfgVars, authVars, regVars, chkVars, engVars, slide_switch, alarmVars, tap_uid, current_page>>

\* after toggle_engine() was called: back at the top of the loop, inside the
\* blocking part of start_engine, or unwound by an exception
AfterEngine ==
    IF epc' = "none" THEN "safety" ELSE IF epc' = "raised" THEN "crashed" ELSE "engine"

\* idle_menu_loop(), lines 74-137: the alarm check, the return-to-menu check,
\* the dequeue and the dispatch
IdleInput ==
    /\ pc = "input"
    /\ loop = "idle"
    /\ IF alarm_active
       THEN /\ DrainKeys
            /\ pc' = "safety"
            /\ op' = "drain"
            /\ UNCHANGED <<engVars, tap_uid, doorVars, loop, current_page, return_to_main_menu>>
       ELSE IF return_to_main_menu
       THEN /\ return_to_main_menu' = FALSE
            /\ loop' = "main"
            /\ pc' = "safety"
            /\ op' = "return_to_main_menu"
            /\ UNCHANGED <<engVars, tap_uid, doorVars, current_page, queueVars>>
       ELSE IF queue = <<>>
       THEN /\ pc' = "safety"
            /\ op' = "no_key"
            /\ UNCHANGED <<engVars, tap_uid, doorVars, loop, current_page,
                           return_to_main_menu, queueVars>>
       ELSE IF Head(queue) \in {"*", "#"}
       THEN /\ TakeKey
            /\ current_page' = IF Head(queue) = "*"
                               THEN (current_page - 1) % PAGES
                               ELSE (current_page + 1) % PAGES
            /\ pc' = "safety"
            /\ op' = "page"
            /\ UNCHANGED <<engVars, tap_uid, doorVars, loop, return_to_main_menu>>
       ELSE IF Head(queue) = "1" /\ current_page = 0
       THEN /\ TakeKey
            /\ epc = "none"
            /\ IF engine_running THEN StopEngineBody ELSE StartEngineBody
            /\ op' = "toggle_engine"
            /\ pc' = AfterEngine
            /\ UNCHANGED <<tap_uid, doorVars, loop, current_page, return_to_main_menu>>
       ELSE IF Head(queue) = "2" /\ current_page = 0
       THEN /\ TakeKey
            /\ ToggleLock
            /\ pc' = "safety"
            /\ UNCHANGED <<engVars, tap_uid, loop, current_page, return_to_main_menu>>
       ELSE IF Head(queue) = "6" /\ current_page = 2
       THEN /\ TakeKey
            /\ IF engine_running THEN StopEngineBody ELSE UNCHANGED engVars
            /\ loop' = "main"
            /\ pc' = "safety"
            /\ op' = "power_off"
            /\ UNCHANGED <<tap_uid, doorVars, current_page, return_to_main_menu>>
       ELSE \* '3' '4' '5' on their page only write to the display; any other key is ignored
            /\ TakeKey
            /\ pc' = "safety"
            /\ op' = "key_ignored"
            /\ UNCHANGED <<engVars, tap_uid, doorVars, loop, current_page, return_to_main_menu>>
    /\ UNCHANGED <<cfgVars, authVars, regVars, chkVars, slide_switch, alarm_active, ir_last_state, ir_cur, ir_confirm,
                   base_locked, buzzer_on, apc>>

\* the blocking part of start_engine(), called from idle_menu_loop
EngineAuth ==
    /\ pc = "engine"
    /\ AuthenticateRfid
    /\ pc' = AfterEngine
    /\ UNCHANGED <<cfgVars, authVars, regVars, chkVars, slide_switch, alarmVars, doorVars,
                   loop, current_page, queueVars>>

\* the wait for the switch with the alarm raised meanwhile, outside the
\* foreground thread
EngineWaitAlarmRaised ==
    /\ pc = "engine"
    /\ WaitForSwitchOn
    /\ pc' = AfterEngine
    /\ alarm_active' = TRUE
    /\ buzzer_on' = TRUE
    /\ UNCHANGED <<cfgVars, authVars, regVars, chkVars, slide_switch, ir_last_state, ir_cur, ir_confirm,
                   base_locked, return_to_main_menu, apc, doorVars,
                   loop, current_page, queueVars>>

EngineWait ==
    /\ pc = "engine"
    /\ WaitForSwitchOn
    /\ pc' = AfterEngine
    /\ UNCHANGED <<cfgVars, authVars, regVars, chkVars, slide_switch, alarmVars, doorVars,
                   loop, current_page, queueVars>>

\* the scanner thread acting on the key itself: the callback turns the menu page
ScanKeyTurnsPage ==
    /\ pc # "crashed"
    /\ presses < MaxPresses
    /\ \E k \in SystemKeys : KeyPressedPut(k)
    /\ current_page' = (current_page + 1) % PAGES
    /\ UNCHANGED <<cfgVars, authVars, regVars, chkVars, engVars, slide_switch, alarmVars, tap_uid, doorVars,
                   pc, loop>>

\* the scanner thread: keypad.get_key() calling key_pressed(k)
ScanKey ==
    /\ pc # "crashed"
    /\ presses < MaxPresses
    /\ \E k \in SystemKeys : KeyPressedPut(k)
    /\ UNCHANGED <<cfgVars, authVars, regVars, chkVars, engVars, slide_switch, alarmVars, tap_uid, doorVars, menuVars>>

\* the driver moves the slide switch
MoveSwitch ==
    /\ pc # "crashed"
    /\ SwitchFlip
    /\ UNCHANGED <<cfgVars, authVars, regVars, chkVars, engVars, alarmVars, tap_uid, doorVars, menuVars, queueVars>>

Next ==
    \/ EnsureSwitchOffAtLaunch
    \/ TickSafety
    \/ TickMonitor
    \/ TickMonitorConfirm
    \/ TickAlarmModal
    \/ MainInput
    \/ IdleInput
    \/ EngineAuth
    \/ EngineWait
    \/ ScanKey
    \/ MoveSwitch

Spec == Init /\ [][Next]_vars

(* idle_menu_loop() from its entry: main() has dispatched key '1'.  The     *)
(* engine is stopped, or running since an earlier stay in the idle menu; the *)
(* page is the one that stay left, since g.current_page is never reset.      *)

\* the engine as start_engine leaves it once the card was accepted and the
\* switch has come ON
EngineStarted ==
    /\ engine_running = TRUE
    /\ motor_speed = 100
    /\ epc = "none"
    /\ auth_result = "granted"
    /\ sw_at_auth = 0
    /\ eng_ret = "True"
    /\ motor_cmds = 0

InitIdle ==
    /\ require_rfid_each_start = TRUE
    /\ eng_allowed_uids = NoneList
    /\ \/ EngineInit(TRUE, NoneList)
       \/ EngineStarted
    /\ slide_switch \in {0, 1}
    /\ g_rfid_allowed_uids = GModuleAllowed
    /\ alarm_allowed_uids = AlarmInitAllowed(g_rfid_allowed_uids)
    /\ alarm_rfid = "reader"
    /\ alarm_trigger_edge = "falling"
    /\ AlarmAtRest
    /\ AuthAtRest
    /\ RegAtRest
    /\ ChkAtRest
    /\ DoorAtRest
    /\ pc = "safety"
    /\ loop = "idle"
    /\ current_page \in 0..(PAGES - 1)
    /\ QueueAtRest
    /\ op = "idle_menu_loop"

\* the scanner thread, for the keys explored from the entry of idle_menu_loop
ScanKeyIdle ==
    /\ presses < MaxIdlePresses
    /\ ScanKey

\* the launch is over
NextIdle ==
    \/ TickSafety
    \/ TickMonitor
    \/ TickMonitorConfirm
    \/ TickAlarmModal
    \/ MainInput
    \/ IdleInput
    \/ EngineAuth
    \/ EngineWait
    \/ ScanKeyIdle
    \/ MoveSwitch

SpecIdle == InitIdle /\ [][NextIdle]_vars

\* a step of the foreground thread, which runs one operation after another
Foreground ==
    \/ EnsureSwitchOffAtLaunch
    \/ TickSafety
    \/ TickMonitor
    \/ TickMonitorConfirm
    \/ TickAlarmModal
    \/ MainInput
    \/ IdleInput
    \/ EngineAuth
    \/ EngineWait

\* the same system with the foreground thread scheduled fairly: whenever it
\* has a step to take it takes one.  Nothing is assumed of the scanner, the
\* switch or the cards presented.
SpecLive == Init /\ [][Next]_vars /\ WF_vars(Foreground)

-----------------------------------------------------------------------------
(* Claims about the engine module, checked under SpecEngine *)

\* the identifier is one the engine's allow-list admits (any, when there is no list)
OnEngineList(u) ==
    \/ eng_allowed_uids.isNone
    \/ u \in eng_allowed_uids.uids
    \/ Str(u) \in eng_allowed_uids.uids

\* C1: with require_rfid_each_start=True the engine goes to running, and the
\* motor to 100, only in a step of a start_engine call in which the credential
\* step had already accepted an admitted identifier and the slide switch, read
\* after that, is ON; never after a denial or a reader fault.
C1_StartNeedsCredentialThenSwitch ==
    [][ (/\ require_rfid_each_start
         /\ \/ (~engine_running /\ engine_running')
            \/ (motor_speed # 100 /\ motor_speed' = 100))
        => (/\ epc = "wait_sw"
            /\ auth_result = "granted"
            /\ OnEngineList(tap_uid)
            /\ slide_switch = 1
            /\ engine_running'
            /\ motor_speed' = 100) ]_vars

\* the engine was started by a call whose credential was accepted while the
\* switch still read OFF
C1_Witness ==
    /\ require_rfid_each_start
    /\ engine_running
    /\ motor_speed = 100
    /\ op = "wait_for_switch_on"
    /\ auth_result = "granted"
    /\ sw_at_auth = 0

C10_DeniedStaysStopped ==
    /\ (/\ op = "authenticate_rfid"
        /\ tap_uid # ReadFault
        /\ ~OnEngineList(tap_uid))
       => (/\ auth_result = "denied"
           /\ epc = "none"
           /\ eng_ret = "False"
           /\ ~engine_running
           /\ motor_speed = 0
           /\ motor_cmds = 0)
    /\ auth_result = "denied" => (~engine_running /\ motor_speed = 0)

\* a denial with the switch reading ON
C10_Witness ==
    /\ op = "authenticate_rfid"
    /\ auth_result = "denied"
    /\ ~OnEngineList(tap_uid)
    /\ sw_at_auth = 1
    /\ slide_switch = 1
    /\ eng_ret = "False"
    /\ ~engine_running


\* C11: when read_id raises during start_engine, the call has returned False to
\* its caller (no exception leaves it), with the engine stopped and no motor
\* command made.
C11_ReaderFaultReturnsFalse ==
    (op = "authenticate_rfid" /\ tap_uid = ReadFault)
    => (/\ eng_ret = "False"
        /\ epc = "none"
        /\ ~engine_running
        /\ motor_speed = 0
        /\ motor_cmds = 0)

\* start_engine is past an accepted credential and polling the switch
WaitingForSwitch == epc = "wait_sw" /\ auth_result = "granted"

C20_StartStopIdempotent ==
    [][ /\ (op' = "start_engine" /\ engine_running /\ slide_switch' = slide_switch)
           => (/\ eng_ret' = "True"
               /\ motor_cmds' = 0
               /\ epc' = "none"
               /\ engine_running'
               /\ motor_speed' = motor_speed
               /\ tap_uid' = tap_uid
               /\ auth_result' = auth_result)
        /\ (op' = "stop_engine" /\ ~engine_running /\ slide_switch' = slide_switch)
           => (/\ eng_ret' = "True"
               /\ motor_cmds' = 0
               /\ epc' = "none"
               /\ ~engine_running'
               /\ motor_speed' = motor_speed
               /\ tap_uid' = tap_uid
               /\ auth_result' = auth_result) ]_vars

\* start_engine has just returned True on an engine that was already running
C20_Witness ==
    /\ op = "start_engine"
    /\ engine_running
    /\ motor_speed = 100
    /\ eng_ret = "True"
    /\ motor_cmds = 0
    /\ epc = "none"

-----------------------------------------------------------------------------
(* Claims about the whole system, checked under Spec *)

\* a step of the foreground thread: neither the scanner nor the switch moved
FgStep ==
    /\ presses' = presses
    /\ kpc' = kpc
    /\ slide_switch' = slide_switch

\* the allow-list of the configuration: g.rfid_allowed_uids where a list was
\* assigned to it, else the three project tags
ConfiguredList ==
    IF g_rfid_allowed_uids.isNone THEN ProjectUids ELSE g_rfid_allowed_uids.uids

OnConfiguredList(u) == u \in ConfiguredList \/ Str(u) \in ConfiguredList

\* C2: monitor_ir_and_trigger enters the alarm modal if and only if the edge
\* condition holds between baseline and current sample and between baseline
\* and an equal re-sample, with the door locked at every sample involved, the
\* one that produced the baseline included.
C2_TriggerIffEdgeAllLocked ==
    [][ (FgStep /\ pc = "monitor" /\ apc \in {"none", "confirm"})
        => ((~alarm_active /\ alarm_active')
            <=> (/\ apc = "confirm"
                 /\ EdgeShouldTrigger(ir_last_state, ir_cur)
                 /\ ir_confirm' = ir_cur
                 /\ EdgeShouldTrigger(ir_last_state, ir_confirm')
                 /\ locked
                 /\ base_locked)) ]_vars

\* C3: once the alarm is active it becomes inactive if and only if a credential
\* read returned an identifier on the allow-list, in every configuration.
C3_ClearedIffListedTap ==
    [][ alarm_active
        => (~alarm_active'
            <=> (/\ FgStep
                 /\ alarm_rfid = "reader"
                 /\ tap_uid' # ReadFault
                 /\ OnConfiguredList(tap_uid'))) ]_vars

\* C4: while the alarm is active, a round of the modal in which the reader is
\* missing or read_id raised leaves the alarm active, the buzzer asserted and
\* the modal about to read again; with no reader handle the alarm is never
\* cleared by any step.
C4_ReaderFaultKeepsAlarm ==
    [][ /\ (alarm_active /\ FgStep /\ (alarm_rfid = "None" \/ tap_uid' = ReadFault))
           => (alarm_active' /\ buzzer_on' /\ apc' = "modal" /\ pc' = "monitor")
        /\ (alarm_active /\ alarm_rfid = "None") => alarm_active' ]_vars

\* the reader has just raised during the alarm, which is still sounding
C4_Witness ==
    /\ alarm_active
    /\ buzzer_on
    /\ apc = "modal"
    /\ op = "alarm_modal"
    /\ tap_uid = ReadFault

\* the dispatches that act on a key
MenuActions == {"idle_menu_loop", "toggle_lock", "toggle_engine", "page", "power_off"}

\* C5: no key enqueued while the alarm was active is ever taken from the queue
\* and dispatched to a menu action.
C5_AlarmKeysNeverDispatched ==
    [][ (/\ FgStep
         /\ pc = "input"
         /\ queue # <<>>
         /\ queue' = Tail(queue)
         /\ op' \in MenuActions)
        => ~Head(qtag) ]_vars

\* C8: toggle_lock flips g.locked whether or not the servo command raised, and
\* the caller goes on with its loop.
C8_ToggleAlwaysFlips ==
    [][ (FgStep /\ pc = "input" /\ op' = "toggle_lock")
        => (locked' = ~locked /\ pc' = "safety") ]_vars

\* the door was unlocked by a toggle whose servo command raised
C8_Witness ==
    /\ op = "toggle_lock"
    /\ ~servo_ok
    /\ ~locked
    /\ pc = "safety"

\* C9: with g.rfid_allowed_uids as g.py leaves it, the credential checks of
\* engine start and alarm clearing accept exactly the three project tags.
C9_DefaultListIsProjectTags ==
    [][ (/\ g_rfid_allowed_uids = GModuleAllowed
         /\ FgStep
         /\ tap_uid' \in TapUids)
        => /\ (pc = "engine" /\ epc = "auth")
              => (auth_result' = "granted" <=> tap_uid' \in ProjectUids)
           /\ (pc = "monitor" /\ apc = "modal" /\ alarm_rfid = "reader")
              => (~alarm_active' <=> tap_uid' \in ProjectUids) ]_vars

\* C12: no hardware fault unwinds the foreground loop: main() never leaves its
\* "while True" through an exception.
C12_NoFaultUnwindsLoop ==
    pc # "crashed"

\* the steps of monitor_ir_and_trigger
MonitorOps == {"monitor_ir_and_trigger", "monitor_confirm", "alarm_modal"}

\* C14: in both loops the foreground thread takes an event from the queue only
\* at the input step of an iteration, one event at a time, and leaves that step
\* for the top of the loop (or the engine call it dispatched to); it reaches
\* the input step only out of monitor_ir_and_trigger, and that only out of
\* enforce_switch_safety.  So every dispatch is preceded, since the dispatch
\* before it, by a safety check and then an intrusion poll.
C14_SafetyThenPollThenKey ==
    [][ FgStep
        => /\ (queue' # queue)
              => (/\ pc = "input"
                  /\ queue # <<>>
                  /\ queue' = Tail(queue)
                  /\ pc' \in {"safety", "engine", "crashed"})
           /\ (pc' = "input") => (pc = "monitor" /\ op' \in MonitorOps)
           /\ (pc' = "monitor" /\ pc # "monitor")
              => (pc = "safety" /\ op' = "enforce_switch_safety")
           /\ (pc = "safety") => (pc' = "monitor") ]_vars

\* inside idle_menu_loop, which a dispatched key '1' entered, the thread is at
\* the input step again with an event waiting
C14_Witness ==
    /\ pc = "input"
    /\ loop = "idle"
    /\ op \in MonitorOps
    /\ queue # <<>>
    /\ Len(queue) < presses

\* C15: the step that clears the alarm is a step of the modal that leaves the
\* buzzer off, alarm_active False, g.return_to_main_menu True and the monitor
\* returned; and idle_menu_loop, finding the signal at its input step, resets
\* it and returns to main() with the queue untouched, no key dispatched.
C15_ClearSignalsReturnToMenu ==
    [][ /\ (alarm_active /\ ~alarm_active')
           => (/\ FgStep
               /\ ~buzzer_on'
               /\ return_to_main_menu'
               /\ apc' = "none"
               /\ pc' = "input"
               /\ loop' = loop)
        /\ (FgStep /\ pc = "input" /\ loop = "idle" /\ return_to_main_menu)
           => (/\ loop' = "main"
               /\ ~return_to_main_menu'
               /\ queue' = queue
               /\ pc' = "safety"
               /\ op' = "return_to_main_menu") ]_vars

\* idle_menu_loop has returned on the signal of an alarm a project tag cleared,
\* leaving a pending key in the queue
C15_Witness ==
    /\ op = "return_to_main_menu"
    /\ loop = "main"
    /\ ~alarm_active
    /\ ~buzzer_on
    /\ ~return_to_main_menu
    /\ tap_uid \in ProjectUids
    /\ queue # <<>>

\* C16: while alarm_active is True no engine start is in progress or begins:
\* the engine does not go from not-running to running, start_engine is neither
\* at its credential prompt nor in its switch wait, and the motor is not
\* commanded.
C16_NoStartWhileAlarm ==
    [][ alarm_active
        => (/\ ~(~engine_running /\ engine_running')
            /\ epc = "none"
            /\ epc' = "none"
            /\ motor_speed' = motor_speed) ]_vars

\* during the alarm a start request (key '1' on page 0 of the idle menu) is
\* waiting in the queue, the engine stopped
C16_Witness ==
    /\ alarm_active
    /\ loop = "idle"
    /\ current_page = 0
    /\ ~engine_running
    /\ queue # <<>>
    /\ Head(queue) = "1"

\* C21: main() leaves ensure_switch_off_at_launch, for the first tick of its
\* loop, only in a step in which the slide switch was read OFF, and with the
\* engine stopped and the motor at 0; until then no tick has run.
C21_LaunchWaitsForSwitchOff ==
    [][ /\ (pc = "launch" /\ pc' # "launch")
           => (/\ FgStep
               /\ slide_switch = 0
               /\ pc' = "safety"
               /\ ~engine_running'
               /\ motor_speed' = 0)
        /\ (pc = "launch") => (op' \in {"init", "ensure_switch_off_at_launch"}) ]_vars

\* the launch check has returned with the switch OFF and the first tick is next
C21_Witness ==
    /\ op = "ensure_switch_off_at_launch"
    /\ pc = "safety"
    /\ loop = "main"
    /\ slide_switch = 0
    /\ ~engine_running

\* C22: with the door locked, a sensor read that fails (the first sample of a
\* poll, or the re-sample after the hold) leaves the alarm untriggered and the
\* baseline g.ir_last_state as it was, and the poll returns.
C22_FailedReadNoTransition ==
    [][ (/\ FgStep
         /\ pc = "monitor"
         /\ locked
         /\ ~alarm_active
         /\ \/ (apc = "none" /\ ir_cur' = "None")
            \/ (apc = "confirm" /\ ir_confirm' = "None"))
        => (/\ ~alarm_active'
            /\ ir_last_state' = ir_last_state
            /\ apc' = "none") ]_vars

\* C28: a poll made with the door unlocked does not enter the alarm modal and
\* does not start a debounce: it returns at once with alarm_active False, the
\* buzzer untouched and the baseline equal to what the sensor read (None
\* included).
C28_UnlockedPollOnlyRefreshes ==
    [][ (FgStep /\ pc = "monitor" /\ apc = "none" /\ ~locked /\ ~alarm_active)
        => (/\ ~alarm_active'
            /\ apc' = "none"
            /\ pc' = "input"
            /\ buzzer_on' = buzzer_on
            /\ ir_cur' \in IrReads
            /\ ir_last_state' = ir_cur') ]_vars

\* a poll made with the door unlocked has stored the level it read, the one a
\* falling edge ends on, as the baseline
C28_Witness ==
    /\ op = "monitor_ir_and_trigger"
    /\ ~locked
    /\ ~alarm_active
    /\ apc = "none"
    /\ alarm_trigger_edge = "falling"
    /\ ir_last_state = "False"
    /\ ir_cur = "False"

\* C29: the re-sample confirms the candidate edge exactly when it equals the
\* candidate value and the edge condition holds between the original baseline
\* and it; then the modal is entered, and when the modal is left the baseline
\* is the reading both samples gave.  Otherwise the alarm stays inactive, the
\* poll returns and the baseline is the candidate value read in this poll.
C29_UnconfirmedEdgeRearms ==
    [][ /\ (FgStep /\ pc = "monitor" /\ apc = "confirm")
           => IF /\ ir_confirm' = ir_cur
                 /\ EdgeShouldTrigger(ir_last_state, ir_confirm')
              THEN /\ alarm_active'
                   /\ apc' = "modal"
                   /\ ir_last_state' = ir_last_state
              ELSE /\ ~alarm_active'
                   /\ apc' = "none"
                   /\ pc' = "input"
                   /\ ir_last_state' = ir_cur
                   /\ ir_last_state' \in {"True", "False"}
        /\ (alarm_active /\ ~alarm_active')
           => (/\ apc' = "none"
               /\ ir_last_state' = ir_cur
               /\ ir_last_state' = ir_confirm) ]_vars

\* a candidate edge was not confirmed: the re-sample read the other level
C29_Witness ==
    /\ op = "monitor_confirm"
    /\ apc = "none"
    /\ ~alarm_active
    /\ locked
    /\ ir_confirm \in {"True", "False"}
    /\ ir_confirm # ir_cur
    /\ ir_last_state = ir_cur

\* C30: when a poll made with the door locked returns and every sensor read in
\* it succeeded, the baseline g.ir_last_state is the last sample the poll took:
\* the first sample when no re-sample was taken, else the re-sample.
C30_BaselineIsLastSample ==
    [][ (FgStep /\ pc = "monitor" /\ locked /\ apc' = "none")
        => /\ (apc = "none" /\ ~alarm_active /\ ir_cur' # "None")
              => ir_last_state' = ir_cur'
           /\ (apc = "confirm" /\ ir_confirm' # "None")
              => ir_last_state' = ir_confirm'
           /\ (apc = "modal")
              => ir_last_state' = ir_confirm ]_vars

\* C32: g.return_to_main_menu is False whenever idle_menu_loop is entered: a
\* signal raised by an alarm that cleared on the main menu does not survive
\* until key '1' is dispatched.
C32_IdleEnteredWithoutSignal ==
    [][ (loop = "main" /\ loop' = "idle") => ~return_to_main_menu' ]_vars

\* C34: the buzzer is commanded on when the alarm becomes active, is kept on
\* for as long as g.alarm_active is True and is commanded off when it becomes
\* False: wherever the foreground thread stands, and so at every boundary
\* between two ticks of a loop, the buzzer is on exactly when the alarm is active.
C34_BuzzerIffAlarm ==
    buzzer_on = alarm_active

\* the modal went round after a card that does not clear the alarm: the alarm
\* is still active and the buzzer still on
C34_Witness ==
    /\ op = "alarm_modal"
    /\ alarm_active
    /\ buzzer_on
    /\ tap_uid \in TapUids

ScannerStep == presses' # presses \/ kpc' # kpc

C25_SwitchOffEventuallyStops ==
    ((engine_running /\ [](slide_switch = 0)) ~> (~engine_running /\ motor_speed = 0))

=============================================================================
